---- MODULE Spec2Model ----
(***************************************************************************)
(* Clone / instant-clone workflow of the vSphere virtual machine resource: *)
(* ValidateVirtualMachineClone, validateCloneSnapshots,                    *)
(* ExpandVirtualMachineCloneSpec and ExpandVirtualMachineInstantCloneSpec  *)
(* (vsphere/internal/vmworkflow/virtual_machine_clone_subresource.go).     *)
(*                                                                         *)
(* Conventions.  A Go pointer / optional value is a sequence: <<>> is nil  *)
(* and <<v>> points at v.  A Go error is a tuple of strings: <<>> is the   *)
(* nil error, otherwise <<message, argument, ...>>.  Each function is a    *)
(* sequence of steps, one per remote call or block of the source, driven   *)
(* by the program counter pc.                                              *)
(***************************************************************************)
EXTENDS Integers, Sequences, FiniteSets, TLC

VARIABLES
    d,            \* the declared configuration (schema.ResourceDiff / ResourceData)
    fo,           \* the target folder handed to the instant clone expansion
    op,           \* the function being executed: "idle", "validate", "clone", "instant"
    pc,           \* the position inside that function
    vm,           \* local vm / srcVM: the resolved source handle
    vprops,       \* local vprops: the fetched source properties
    spec,         \* local spec: the clone spec under construction
    diff,         \* the value d.SetNew recorded for "vapp_transport"
    devices,      \* local devices: the filtered network adapters
    index,        \* loop variable of the network device loop (0-based, as in Go)
    configSpecs,  \* local configSpecs
    net,          \* local net: the network resolved for the current adapter
    pool,         \* local pool: the resolved resource pool
    hs,           \* local hs: the resolved host system
    bctx,         \* contexts created by context.WithTimeout and not yet cancelled
    ret,          \* what the function returned: <<>> while running
    prev,         \* what the caller keeps of the previous invocation, when one follows another
    steps,        \* the steps this invocation has executed, oldest first
    other         \* the locals of a second invocation, suspended while this one runs

vars == <<d, fo, op, pc, vm, vprops, spec, diff, devices, index, configSpecs, net, pool, hs, bctx, ret, prev, steps, other>>

-----------------------------------------------------------------------------
(* Bounds of the model *)

MaxRoots == 2
MaxChildren == 1
MaxDevices == 3
MaxInterfaces == 2

-----------------------------------------------------------------------------
(* Generic helpers *)

Nil == <<>>

Min(a, b) == IF a < b THEN a ELSE b

\* All sequences over S of length at most n.
SeqsUpTo(S, n) == UNION {[1..k -> S] : k \in 0..n}

\* Mutation of GetOk: the zero value counts as set.
GetOkZeroValue(v) == TRUE

\* Go's d.GetOk on a string key: ok is false for the zero value.
GetOk(v) == v # ""

-----------------------------------------------------------------------------
(* The remote inventory, as seen through the helper packages *)

\* virtualmachine.FromUUID: the handle for a UUID, or an error.
VMFromUUID(uuid) ==
    IF uuid = "uuid-1" THEN [vm |-> <<"vm-1">>, err |-> Nil]
    ELSE IF uuid = "uuid-2" THEN [vm |-> <<"vm-2">>, err |-> Nil]
    ELSE [vm |-> Nil, err |-> <<"virtual machine not found", uuid>>]

\* datacenterFromID
DatacenterFromID(id) ==
    IF id = "datacenter-1" THEN [dc |-> <<"datacenter-1">>, err |-> Nil]
    ELSE [dc |-> Nil, err |-> <<"datacenter not found", id>>]

\* virtualmachine.FromPath: the handle for a name or path, searched in the
\* datacenter if one is given.
VMFromPath(name, dc) ==
    IF name = "template-1" THEN [vm |-> <<"vm-1">>, err |-> Nil]
    ELSE [vm |-> Nil, err |-> <<"virtual machine not found", name>>]

\* datastore.FromID
DatastoreFromID(id) ==
    IF id = "datastore-1" THEN [ds |-> <<"datastore-1">>, err |-> Nil]
    ELSE [ds |-> Nil, err |-> <<"datastore not found", id>>]

\* resourcepool.FromID
ResourcePoolFromID(id) ==
    IF id = "resgroup-1" THEN [pool |-> <<"resgroup-1">>, err |-> Nil]
    ELSE [pool |-> Nil, err |-> <<"resource pool not found", id>>]

\* hostsystem.FromID
HostSystemFromID(id) ==
    IF id \in {"host-1", "host-2"} THEN [hs |-> <<id>>, err |-> Nil]
    ELSE [hs |-> Nil, err |-> <<"host not found", id>>]

\* The hosts of the compute resource that owns a resource pool.
PoolHosts(p) == IF p = <<"resgroup-1">> THEN {"host-1"} ELSE {}

\* resourcepool.ValidateHost: a nil host has nothing to validate; otherwise
\* the host must be a member of the pool's compute resource.
ValidateHost(p, h) ==
    IF h = Nil THEN Nil
    ELSE IF h[1] \in PoolHosts(p) THEN Nil
    ELSE <<"host is not a member of resource pool", h[1], p[1]>>

\* network.FromID
NetworkFromID(id) ==
    IF id \in {"network-1", "network-2"} THEN [net |-> <<id>>, err |-> Nil]
    ELSE [net |-> Nil, err |-> <<"network not found", id>>]

\* net.EthernetCardBackingInfo(bctx): the backing of the network, or the
\* error of a remote call that failed or ran into the timeout.
EthernetCardBackingInfo(n) ==
    { [backing |-> <<[Network |-> n[1]]>>, err |-> Nil],
      [backing |-> Nil, err |-> <<"error getting backing info", n[1]>>] }

\* Guest IDs the environment browser of the pool's compute resource knows.
GuestIds == {"ubuntu64Guest", "otherLinux64Guest"}

\* resourcepool.OSFamily
OSFamily(p, guest) ==
    IF guest \in GuestIds THEN [family |-> "linuxGuest", err |-> Nil]
    ELSE [family |-> "", err |-> <<"could not find guest ID", guest>>]

\* ValidateCustomizationSpec(d, family): opaque to this workflow.
ValidateCustomizationSpec(cfg, family) ==
    { Nil, <<"customization spec is not valid for family", family>> }

-----------------------------------------------------------------------------
(* Source properties: mo.VirtualMachine *)

RootRef(i) == "snapshot-" \o ToString(i)
ChildRef(i, j) == "snapshot-" \o ToString(i) \o "-" \o ToString(j)

\* types.VirtualMachineSnapshotTree
SnapshotNode(i, k) ==
    [ Snapshot |-> [Type |-> "VirtualMachineSnapshot", Value |-> RootRef(i)],
      ChildSnapshotList |->
        [ j \in 1..k |->
            [ Snapshot |-> [Type |-> "VirtualMachineSnapshot", Value |-> ChildRef(i, j)],
              ChildSnapshotList |-> <<>> ] ] ]

\* The snapshots a current-snapshot pointer may name.
CurrentRefs == {RootRef(i) : i \in 1..MaxRoots} \cup {ChildRef(1, 1)}

\* types.VirtualMachineSnapshotInfo: CurrentSnapshot is a pointer, the root
\* list a slice of trees.
SnapshotInfos ==
    { [ CurrentSnapshot |-> cur, RootSnapshotList |-> [i \in 1..n |-> SnapshotNode(i, ch[i])] ] :
        cur \in {Nil} \cup {<<[Type |-> "VirtualMachineSnapshot", Value |-> r]>> : r \in CurrentRefs},
        n \in 0..MaxRoots,
        ch \in [1..MaxRoots -> 0..MaxChildren] }

\* props.Snapshot is a pointer: nil when the machine has no snapshot.
Snapshots == {Nil} \cup {<<s>> : s \in SnapshotInfos}

\* A network adapter of the source (types.BaseVirtualEthernetCard).
EthernetCard(key, manual) ==
    [ Type |-> "VirtualVmxnet3",
      Key |-> key,
      Backing |-> <<[Network |-> "network-0"]>>,
      ResourceAllocation |->
        [ Limit |-> <<50>>, Reservation |-> <<5>>,
          Share |-> [Level |-> "high", Shares |-> 100] ],
      AddressType |-> IF manual THEN "manual" ELSE "assigned",
      MacAddress |-> IF manual THEN "00:50:56:00:00:01" ELSE "00:50:56:8a:00:02" ]

\* A device that is no network adapter.
VirtualDisk(key) == [Type |-> "VirtualDisk", Key |-> key]

\* device.(types.BaseVirtualEthernetCard)
IsEthernetCard(device) == device.Type = "VirtualVmxnet3"

DeviceKinds == {"nic-manual", "nic-assigned", "disk"}

DeviceOf(kind, key) ==
    CASE kind = "nic-manual" -> EthernetCard(key, TRUE)
      [] kind = "nic-assigned" -> EthernetCard(key, FALSE)
      [] OTHER -> VirtualDisk(key)

\* vprops.Config.Hardware.Device: an ordered, heterogeneous list; the key of
\* a device is its position.
DeviceLists ==
    { [i \in 1..Len(ks) |-> DeviceOf(ks[i], i)] : ks \in SeqsUpTo(DeviceKinds, MaxDevices) }

VAppConfigs == { Nil, <<[OvfEnvironmentTransport |-> <<"iso", "com.vmware.guestInfo">>]>> }

VirtualMachineProps(guest, snap, vapp, devs) ==
    [ Config |-> [ Uuid |-> "uuid-1", GuestId |-> guest, VAppConfig |-> vapp,
                   Hardware |-> [Device |-> devs] ],
      Snapshot |-> snap ]

\* A machine with a single snapshot that is also its current one.
SingleSnapshot ==
    <<[ CurrentSnapshot |-> <<SnapshotNode(1, 0).Snapshot>>,
        RootSnapshotList |-> <<SnapshotNode(1, 0)>> ]>>

\* The property structures a fetch may return: every snapshot state of a
\* one-disk machine; every guest ID and vApp configuration; every device list.
SourceProperties ==
    { VirtualMachineProps("ubuntu64Guest", s, Nil, <<VirtualDisk(1)>>) : s \in Snapshots }
    \cup
    { VirtualMachineProps(g, s, v, <<VirtualDisk(1)>>) :
        g \in GuestIds, s \in {Nil, SingleSnapshot}, v \in VAppConfigs }
    \cup
    { VirtualMachineProps("ubuntu64Guest", s, Nil, l) :
        s \in {Nil, SingleSnapshot}, l \in DeviceLists }

\* Structures a fetch may return without an error although they are
\* incomplete: the configuration block is missing (a nil Config), or the
\* configuration has no UUID.
IncompleteProperties ==
    { [Config |-> Nil, Snapshot |-> s] : s \in {Nil, SingleSnapshot} }
    \cup
    { [VirtualMachineProps("ubuntu64Guest", s, Nil, <<VirtualDisk(1)>>) EXCEPT !.Config.Uuid = ""] :
        s \in {Nil, SingleSnapshot} }

\* The UUID of the machine behind a handle.
UuidOf(handle) == IF handle = <<"vm-2">> THEN "uuid-2" ELSE "uuid-1"

\* A fetched structure as it is returned for a handle: a UUID that is not
\* missing is the one of that machine.
FetchedFrom(handle, p) ==
    IF p.Config = Nil THEN p
    ELSE IF p.Config.Uuid = "" THEN p
    ELSE [p EXCEPT !.Config.Uuid = UuidOf(handle)]

\* virtualmachine.Properties: the properties, or the error of a failed fetch.
Properties(handle) ==
    { [props |-> <<FetchedFrom(handle, p)>>, err |-> Nil] :
        p \in SourceProperties \cup IncompleteProperties }
    \cup { [props |-> Nil, err |-> <<"property fetch failed", handle[1]>>] }

-----------------------------------------------------------------------------
(* The declared configuration *)

DeclaredGuestIds == GuestIds \cup {"notAGuestId"}

\* One network_interface block of the resource.
NetworkInterfaces ==
    { [ network_id |-> "network-1", bandwidth_limit |-> 100, bandwidth_reservation |-> 10,
        bandwidth_share_level |-> "custom", bandwidth_share_count |-> 75,
        use_static_mac |-> TRUE, mac_address |-> "00:50:56:00:00:99" ],
      [ network_id |-> "network-2", bandwidth_limit |-> -1, bandwidth_reservation |-> 0,
        bandwidth_share_level |-> "normal", bandwidth_share_count |-> 33,
        use_static_mac |-> FALSE, mac_address |-> "00:50:56:00:00:42" ],
      [ network_id |-> "network-x", bandwidth_limit |-> -1, bandwidth_reservation |-> 0,
        bandwidth_share_level |-> "normal", bandwidth_share_count |-> 0,
        use_static_mac |-> FALSE, mac_address |-> "" ] }

\* extra_config: a map from keys to values, as a TLA+ function.
ExtraConfigs ==
    { [k \in {} |-> ""],
      [k \in {"guestinfo.a"} |-> "1"],
      [k \in {"guestinfo.a", "guestinfo.b"} |-> IF k = "guestinfo.a" THEN "1" ELSE "2"] }

\* The zero value of every key the workflow reads.
ZeroConfig ==
    [ template_uuid |-> "", template_uuid_known |-> FALSE, linked_clone |-> FALSE,
      customize |-> <<>>, guest_id |-> "", resource_pool_id |-> "",
      host_system_id |-> "", datastore_id |-> "", source_uuid |-> "", name |-> "",
      extra_config |-> [k \in {} |-> ""], network_interface |-> <<>>,
      datacenter_id |-> "", id |-> "" ]

\* The zero value of the clone spec.  VirtualMachineCloneSpec and
\* VirtualMachineInstantCloneSpec share the Location (VirtualMachineRelocateSpec).
ZeroSpec ==
    [ Location |-> [ Datastore |-> Nil, Pool |-> Nil, Host |-> Nil, Folder |-> Nil,
                     Disk |-> Nil, DiskMoveType |-> "", DeviceChange |-> Nil ],
      Snapshot |-> Nil, Name |-> "", Config |-> <<>> ]

\* Mutation of NewValueKnown: the known-ness of the value is not consulted.
NewValueKnownIgnored(cfg) == TRUE

\* d.NewValueKnown("clone.0.template_uuid")
NewValueKnown(cfg) == cfg.template_uuid_known

-----------------------------------------------------------------------------
(* Initial state and the ends of a function *)

\* The locals of the running invocation.
Locals ==
    [ d |-> d, fo |-> fo, op |-> op, pc |-> pc, vm |-> vm, vprops |-> vprops,
      spec |-> spec, diff |-> diff, devices |-> devices, index |-> index,
      configSpecs |-> configSpecs, net |-> net, pool |-> pool, hs |-> hs,
      bctx |-> bctx, ret |-> ret, steps |-> steps ]

\* The locals of an invocation that has not been entered.
FreshLocals ==
    [ d |-> ZeroConfig, fo |-> Nil, op |-> "idle", pc |-> "idle", vm |-> Nil,
      vprops |-> Nil, spec |-> ZeroSpec, diff |-> Nil, devices |-> <<>>, index |-> 0,
      configSpecs |-> <<>>, net |-> Nil, pool |-> Nil, hs |-> Nil,
      bctx |-> <<>>, ret |-> Nil, steps |-> <<>> ]

Init ==
    /\ d = ZeroConfig
    /\ fo = Nil
    /\ op = "idle"
    /\ pc = "idle"
    /\ vm = Nil
    /\ vprops = Nil
    /\ spec = ZeroSpec
    /\ diff = Nil
    /\ devices = <<>>
    /\ index = 0
    /\ configSpecs = <<>>
    /\ net = Nil
    /\ pool = Nil
    /\ hs = Nil
    /\ bctx = <<>>
    /\ ret = Nil
    /\ prev = Nil
    /\ steps = <<>>
    /\ other = FreshLocals

\* A function is entered from the initial state: every invocation starts with
\* fresh locals and nothing is kept from one invocation to the next.
Idle == pc = "idle"

\* The locals of a fresh invocation.
Enter(o, cfg, folder, start) ==
    /\ d' = cfg
    /\ fo' = folder
    /\ op' = o
    /\ pc' = start
    /\ vm' = Nil
    /\ vprops' = Nil
    /\ spec' = ZeroSpec
    /\ diff' = Nil
    /\ devices' = <<>>
    /\ index' = 0
    /\ configSpecs' = <<>>
    /\ net' = Nil
    /\ pool' = Nil
    /\ hs' = Nil
    /\ bctx' = <<>>
    /\ ret' = Nil
    /\ prev' = prev
    /\ steps' = <<>>
    /\ other' = other

\* The step being executed: its label and, inside the device loop, the index.
Step == [at |-> pc, index |-> index]

\* Mutation of Return: a step that failed is executed again.
ReturnRetries(r) ==
    /\ IF r.err # Nil
       THEN pc' = pc /\ ret' = ret /\ bctx' = bctx
       ELSE ret' = <<r>> /\ pc' = "done" /\ bctx' = <<>>
    /\ prev' = prev
    /\ steps' = Append(steps, Step)
    /\ other' = other

\* return r: the deferred calls run, which cancels every context still held.
Return(r) ==
    /\ ret' = <<r>>
    /\ pc' = "done"
    /\ bctx' = <<>>
    /\ prev' = prev
    /\ steps' = Append(steps, Step)
    /\ other' = other

\* A nil pointer dereference: the goroutine panics and nothing is returned.
Panic ==
    /\ pc' = "panic"
    /\ steps' = Append(steps, Step)
    /\ UNCHANGED <<ret, bctx, prev, other>>

\* Continue at the step l.
Goto(l) ==
    /\ pc' = l
    /\ steps' = Append(steps, Step)
    /\ UNCHANGED <<ret, bctx, prev, other>>

-----------------------------------------------------------------------------
(* validateCloneSnapshots *)

\* The result of a call: an error (Nil for none), or a panic.
Result(e) == [panic |-> FALSE, err |-> e]
Panicked == [panic |-> TRUE, err |-> Nil]

validateCloneSnapshots(props) ==
    LET uuid == props.Config.Uuid
        snap == props.Snapshot
        \* every message is formatted with props.Config.Uuid, which
        \* dereferences props.Config
        Errorf(e) == IF props.Config = Nil THEN Panicked ELSE Result(e)
    IN  IF snap = Nil
        THEN Errorf(<<"must have a snapshot to be used as a linked clone", uuid>>)
        ELSE IF Len(snap[1].RootSnapshotList) # 1
        THEN Errorf(<<"must have exactly one root snapshot (has: %d)", uuid,
                      ToString(Len(snap[1].RootSnapshotList))>>)
        ELSE IF Len(snap[1].RootSnapshotList[1].ChildSnapshotList) > 0
        THEN Errorf(<<"root snapshot must not have children", uuid>>)
        \* props.Snapshot.CurrentSnapshot.Value dereferences the pointer
        ELSE IF snap[1].CurrentSnapshot = Nil
        THEN Panicked
        ELSE IF snap[1].CurrentSnapshot[1].Value # snap[1].RootSnapshotList[1].Snapshot.Value
        THEN Errorf(<<"current snapshot must match root snapshot", uuid>>)
        ELSE Result(Nil)

-----------------------------------------------------------------------------
(* ValidateVirtualMachineClone *)

ValidateConfigs ==
    { [ ZeroConfig EXCEPT !.template_uuid_known = k,
                          !.template_uuid = IF k THEN u ELSE "",
                          !.guest_id = g,
                          !.linked_clone = l,
                          !.customize = c,
                          !.resource_pool_id = p ] :
        k \in BOOLEAN, u \in {"uuid-1", "uuid-x"}, g \in DeclaredGuestIds,
        l \in BOOLEAN, c \in {<<>>, <<"customize">>},
        p \in {"", "resgroup-1", "resgroup-x"} }

\* What ValidateVirtualMachineClone returns.
ValidateResult(e) == [err |-> e]

\* Mutation of GuestIDError: the two guest IDs change places in the message.
GuestIDErrorSwapped(eGuestID, aGuestID) ==
    IF eGuestID # aGuestID
    THEN <<"invalid guest ID for clone. Please set it to", eGuestID, aGuestID>>
    ELSE Nil

\* The guest ID check: eGuestID is the source's, aGuestID the declared one.
GuestIDError(eGuestID, aGuestID) ==
    IF eGuestID # aGuestID
    THEN <<"invalid guest ID for clone. Please set it to", aGuestID, eGuestID>>
    ELSE Nil

\* virtualdevice.DiskCloneValidateOperation: opaque to this workflow.
DiskCloneValidateOperation(cfg, l, linked) ==
    { Nil, <<"disk configuration does not match the source">> }

BeginValidate ==
    /\ Idle
    /\ \E cfg \in ValidateConfigs : Enter("validate", cfg, Nil, "v_start")

ValidateFromUUID ==
    /\ pc = "v_start"
    /\ IF NewValueKnown(d)
       THEN LET r == VMFromUUID(d.template_uuid)
            IN  IF r.err # Nil
                THEN /\ Return(ValidateResult(
                           <<"cannot locate virtual machine or template with UUID",
                             d.template_uuid>> \o r.err))
                     /\ vm' = vm
                ELSE /\ vm' = r.vm
                     /\ Goto("v_props")
       ELSE /\ vm' = vm
            /\ Goto("v_customize")
    /\ UNCHANGED <<d, fo, op, vprops, spec, diff, devices, index, configSpecs, net, pool, hs>>

ValidateProperties ==
    /\ pc = "v_props"
    /\ \E r \in Properties(vm) :
          IF r.err # Nil
          THEN /\ Return(ValidateResult(
                     <<"error fetching virtual machine or template properties">> \o r.err))
               /\ vprops' = vprops
          ELSE /\ vprops' = r.props
               /\ Goto("v_guest")
    /\ UNCHANGED <<d, fo, op, vm, spec, diff, devices, index, configSpecs, net, pool, hs>>

ValidateGuestID ==
    /\ pc = "v_guest"
    \* vprops.Config.GuestId dereferences vprops.Config
    /\ IF vprops[1].Config = Nil
       THEN Panic
       ELSE LET e == GuestIDError(vprops[1].Config.GuestId, d.guest_id)
            IN  IF e # Nil THEN Return(ValidateResult(e)) ELSE Goto("v_snapshots")
    /\ UNCHANGED <<d, fo, op, vm, vprops, spec, diff, devices, index, configSpecs, net, pool, hs>>

ValidateSnapshots ==
    /\ pc = "v_snapshots"
    /\ IF d.linked_clone
       THEN LET r == validateCloneSnapshots(vprops[1])
            IN  IF r.panic THEN Panic
                ELSE IF r.err # Nil THEN Return(ValidateResult(r.err))
                ELSE Goto("v_disks")
       ELSE Goto("v_disks")
    /\ UNCHANGED <<d, fo, op, vm, vprops, spec, diff, devices, index, configSpecs, net, pool, hs>>

ValidateDisks ==
    /\ pc = "v_disks"
    /\ \E e \in DiskCloneValidateOperation(d, vprops[1].Config.Hardware.Device, d.linked_clone) :
          IF e # Nil THEN Return(ValidateResult(e)) ELSE Goto("v_vapp")
    /\ UNCHANGED <<d, fo, op, vm, vprops, spec, diff, devices, index, configSpecs, net, pool, hs>>

\* Mutation of SetNewVAppTransport: a source without a vApp configuration
\* records an empty transport list.
SetNewVAppTransportUnconditionally(df, vconfig) ==
    IF vconfig # Nil THEN <<vconfig[1].OvfEnvironmentTransport>> ELSE << <<>> >>

\* if vconfig != nil { d.SetNew("vapp_transport", ...OvfEnvironmentTransport) }
SetNewVAppTransport(df, vconfig) ==
    IF vconfig # Nil THEN <<vconfig[1].OvfEnvironmentTransport>> ELSE df

ValidateVApp ==
    /\ pc = "v_vapp"
    /\ diff' = SetNewVAppTransport(diff, vprops[1].Config.VAppConfig)
    /\ Goto("v_customize")
    /\ UNCHANGED <<d, fo, op, vm, vprops, spec, devices, index, configSpecs, net, pool, hs>>

ValidateCustomizePool ==
    /\ pc = "v_customize"
    /\ IF Len(d.customize) > 0
       THEN IF GetOk(d.resource_pool_id)
            THEN LET r == ResourcePoolFromID(d.resource_pool_id)
                 IN  IF r.err # Nil
                     THEN /\ Return(ValidateResult(
                                <<"could not find resource pool ID", d.resource_pool_id>> \o r.err))
                          /\ pool' = pool
                     ELSE /\ pool' = r.pool
                          /\ Goto("v_osfamily")
            ELSE /\ pool' = pool
                 /\ Return(ValidateResult(Nil))
       ELSE /\ pool' = pool
            /\ Return(ValidateResult(Nil))
    /\ UNCHANGED <<d, fo, op, vm, vprops, spec, diff, devices, index, configSpecs, net, hs>>

ValidateOSFamily ==
    /\ pc = "v_osfamily"
    /\ LET r == OSFamily(pool, d.guest_id)
       IN  IF r.err # Nil
           THEN Return(ValidateResult(<<"cannot find OS family for guest ID", d.guest_id>> \o r.err))
           ELSE Goto("v_customization")
    /\ UNCHANGED <<d, fo, op, vm, vprops, spec, diff, devices, index, configSpecs, net, pool, hs>>

ValidateCustomization ==
    /\ pc = "v_customization"
    /\ \E e \in ValidateCustomizationSpec(d, OSFamily(pool, d.guest_id).family) :
          Return(ValidateResult(e))
    /\ UNCHANGED <<d, fo, op, vm, vprops, spec, diff, devices, index, configSpecs, net, pool, hs>>

ValidateVirtualMachineClone ==
    \/ BeginValidate
    \/ ValidateFromUUID
    \/ ValidateProperties
    \/ ValidateGuestID
    \/ ValidateSnapshots
    \/ ValidateDisks
    \/ ValidateVApp
    \/ ValidateCustomizePool
    \/ ValidateOSFamily
    \/ ValidateCustomization

-----------------------------------------------------------------------------
(* ExpandVirtualMachineCloneSpec *)

\* The configurations the clone expansion is run on.  The declared guest ID
\* is part of the resource although the expansion does not read it.
CloneConfigs ==
    { [ ZeroConfig EXCEPT !.template_uuid_known = TRUE,
                          !.template_uuid = u,
                          !.guest_id = g,
                          !.linked_clone = l,
                          !.datastore_id = ds,
                          !.resource_pool_id = p,
                          !.host_system_id = h ] :
        u \in {"uuid-1", "uuid-2", "uuid-x"}, g \in GuestIds, l \in BOOLEAN,
        ds \in {"", "datastore-1", "datastore-x"},
        p \in {"resgroup-1", "resgroup-x"},
        h \in {"", "host-1", "host-2", "host-x"} }

\* Mutation of ExpandResult: the error is dropped from the return values.
ExpandResultDropsError(s, h, e) == [spec |-> s, vm |-> h, err |-> Nil]

\* Mutation of ExpandResult: the handle the function holds is returned
\* beside an error as well.
ExpandResultKeepsHandle(s, h, e) ==
    [spec |-> s, vm |-> IF e # Nil THEN vm ELSE h, err |-> e]

\* What the two expand functions return: (spec, vm, err).
ExpandResult(s, h, e) == [spec |-> s, vm |-> h, err |-> e]

\* Mutation of SetDatastore: the resolved datastore is not stored.
SetDatastoreDropped(s, ds) == s

\* spec.Location.Datastore = types.NewReference(ds.Reference())
SetDatastore(s, ds) == [s EXCEPT !.Location.Datastore = ds]

\* Mutation of SetLinkedClone: the disk move type is not set.
SetLinkedCloneWithoutDiskMove(s, props) ==
    [s EXCEPT !.Snapshot = props.Snapshot[1].CurrentSnapshot]

\* The two fields a linked clone sets.
SetLinkedClone(s, props) ==
    [s EXCEPT !.Snapshot = props.Snapshot[1].CurrentSnapshot,
              !.Location.DiskMoveType = "createNewChildDiskBacking"]

\* Mutation of SetPlacement: the host reference is not set.
SetPlacementWithoutHost(s, p, h) == [s EXCEPT !.Location.Pool = p]

\* spec.Location.Pool is always set, spec.Location.Host only for a host.
SetPlacement(s, p, h) ==
    [s EXCEPT !.Location.Pool = p,
              !.Location.Host = IF h # Nil THEN h ELSE @]

\* virtualdevice.DiskCloneRelocateOperation: opaque to this workflow; on
\* success one relocator per disk of the source.
DiskCloneRelocateOperation(cfg, l) ==
    { [relocators |-> <<[i \in 1..Len(SelectSeq(l, LAMBDA dev : ~IsEthernetCard(dev))) |->
                           [DiskId |-> SelectSeq(l, LAMBDA dev : ~IsEthernetCard(dev))[i].Key]]>>,
       err |-> Nil],
      [relocators |-> Nil, err |-> <<"error computing disk relocators">>] }

BeginClone ==
    /\ Idle
    /\ \E cfg \in CloneConfigs : Enter("clone", cfg, Nil, "c_start")

CloneDatastore ==
    /\ pc = "c_start"
    /\ IF GetOk(d.datastore_id)
       THEN LET r == DatastoreFromID(d.datastore_id)
            IN  IF r.err # Nil
                THEN /\ Return(ExpandResult(spec, Nil, <<"error locating datastore for VM">> \o r.err))
                     /\ spec' = spec
                ELSE /\ spec' = SetDatastore(spec, r.ds)
                     /\ Goto("c_fromuuid")
       ELSE /\ spec' = spec
            /\ Goto("c_fromuuid")
    /\ UNCHANGED <<d, fo, op, vm, vprops, diff, devices, index, configSpecs, net, pool, hs>>

CloneFromUUID ==
    /\ pc = "c_fromuuid"
    /\ LET r == VMFromUUID(d.template_uuid)
       IN  IF r.err # Nil
           THEN /\ Return(ExpandResult(spec, Nil,
                      <<"cannot locate virtual machine or template with UUID",
                        d.template_uuid>> \o r.err))
                /\ vm' = vm
           ELSE /\ vm' = r.vm
                /\ Goto("c_props")
    /\ UNCHANGED <<d, fo, op, vprops, spec, diff, devices, index, configSpecs, net, pool, hs>>

CloneProperties ==
    /\ pc = "c_props"
    /\ \E r \in Properties(vm) :
          IF r.err # Nil
          THEN /\ Return(ExpandResult(spec, Nil,
                     <<"error fetching virtual machine or template properties">> \o r.err))
               /\ vprops' = vprops
          ELSE /\ vprops' = r.props
               /\ Goto("c_linked")
    /\ UNCHANGED <<d, fo, op, vm, spec, diff, devices, index, configSpecs, net, pool, hs>>

\* Mutation of RevalidateSnapshots: only the presence of a snapshot is checked.
RevalidateSnapshotsPresenceOnly(props) ==
    IF props.Snapshot = Nil THEN validateCloneSnapshots(props) ELSE Result(Nil)

\* Mutation of RevalidateSnapshots: the guest ID is checked again as well.
RevalidateSnapshotsAndGuestID(props) ==
    IF props.Config # Nil /\ GuestIDError(props.Config.GuestId, d.guest_id) # Nil
    THEN Result(GuestIDError(props.Config.GuestId, d.guest_id))
    ELSE validateCloneSnapshots(props)

\* "This should have already been validated, but just in case, validate it
\* again here."
RevalidateSnapshots(props) == validateCloneSnapshots(props)

CloneLinked ==
    /\ pc = "c_linked"
    /\ IF d.linked_clone
       THEN LET r == RevalidateSnapshots(vprops[1])
            IN  IF r.panic
                THEN /\ Panic
                     /\ spec' = spec
                ELSE IF r.err # Nil
                THEN /\ Return(ExpandResult(spec, Nil, r.err))
                     /\ spec' = spec
                ELSE /\ spec' = SetLinkedClone(spec, vprops[1])
                     /\ Goto("c_pool")
       ELSE /\ spec' = spec
            /\ Goto("c_pool")
    /\ UNCHANGED <<d, fo, op, vm, vprops, diff, devices, index, configSpecs, net, pool, hs>>

ClonePool ==
    /\ pc = "c_pool"
    /\ LET r == ResourcePoolFromID(d.resource_pool_id)
       IN  IF r.err # Nil
           THEN /\ Return(ExpandResult(spec, Nil,
                      <<"could not find resource pool ID", d.resource_pool_id>> \o r.err))
                /\ pool' = pool
           ELSE /\ pool' = r.pool
                /\ Goto("c_host")
    /\ UNCHANGED <<d, fo, op, vm, vprops, spec, diff, devices, index, configSpecs, net, hs>>

CloneHost ==
    /\ pc = "c_host"
    /\ IF GetOk(d.host_system_id)
       THEN LET r == HostSystemFromID(d.host_system_id)
            IN  IF r.err # Nil
                THEN /\ Return(ExpandResult(spec, Nil,
                           <<"error locating host system at ID", d.host_system_id>> \o r.err))
                     /\ hs' = hs
                ELSE /\ hs' = r.hs
                     /\ Goto("c_validatehost")
       ELSE /\ hs' = hs
            /\ Goto("c_validatehost")
    /\ UNCHANGED <<d, fo, op, vm, vprops, spec, diff, devices, index, configSpecs, net, pool>>

CloneValidateHost ==
    /\ pc = "c_validatehost"
    /\ LET e == ValidateHost(pool, hs)
       IN  IF e # Nil
           THEN /\ Return(ExpandResult(spec, Nil, e))
                /\ spec' = spec
           ELSE /\ spec' = SetPlacement(spec, pool, hs)
                /\ Goto("c_disks")
    /\ UNCHANGED <<d, fo, op, vm, vprops, diff, devices, index, configSpecs, net, pool, hs>>

CloneRelocate ==
    /\ pc = "c_disks"
    \* vprops.Config.Hardware.Device dereferences vprops.Config
    /\ IF vprops[1].Config = Nil
       THEN /\ Panic
            /\ spec' = spec
       ELSE \E r \in DiskCloneRelocateOperation(d, vprops[1].Config.Hardware.Device) :
               IF r.err # Nil
               THEN /\ Return(ExpandResult(spec, Nil, r.err))
                    /\ spec' = spec
               ELSE /\ spec' = [spec EXCEPT !.Location.Disk = r.relocators]
                    /\ Return(ExpandResult(spec', vm, Nil))
    /\ UNCHANGED <<d, fo, op, vm, vprops, diff, devices, index, configSpecs, net, pool, hs>>

ExpandVirtualMachineCloneSpec ==
    \/ BeginClone
    \/ CloneDatastore
    \/ CloneFromUUID
    \/ CloneProperties
    \/ CloneLinked
    \/ ClonePool
    \/ CloneHost
    \/ CloneValidateHost
    \/ CloneRelocate

-----------------------------------------------------------------------------
(* ExpandVirtualMachineInstantCloneSpec *)

\* The declared configurations of an instant clone: every list of interface
\* blocks with a resolvable placement, and every placement and extra_config
\* with no or one interface block.
InstantCloneConfigs ==
    { [ ZeroConfig EXCEPT !.source_uuid = "uuid-1",
                          !.name = "clone-1",
                          !.resource_pool_id = "resgroup-1",
                          !.network_interface = n ] :
        n \in SeqsUpTo(NetworkInterfaces, MaxInterfaces) }
    \cup
    { [ ZeroConfig EXCEPT !.source_uuid = u,
                          !.name = "clone-1",
                          !.datastore_id = ds,
                          !.resource_pool_id = p,
                          !.host_system_id = h,
                          !.extra_config = ec,
                          !.network_interface = n ] :
        u \in {"uuid-1", "uuid-2", "uuid-x"},
        ds \in {"", "datastore-1", "datastore-x"},
        p \in {"resgroup-1", "resgroup-x"},
        h \in {"", "host-2"},
        ec \in ExtraConfigs,
        n \in SeqsUpTo(NetworkInterfaces, 1) }

\* for k, v := range ec: Go visits the keys of a map in an unspecified order,
\* which may differ from one iteration to the next.  Every order of the keys
\* is a possible outcome of the loop.
RangeOrders(ec) ==
    { [i \in 1..Cardinality(DOMAIN ec) |-> [Key |-> ks[i], Value |-> ec[ks[i]]]] :
        ks \in { f \in [1..Cardinality(DOMAIN ec) -> DOMAIN ec] :
                    \A i, j \in 1..Cardinality(DOMAIN ec) : f[i] = f[j] => i = j } }

\* devices.Select(...): the network adapters of the list, in its order.
SelectEthernetCards(l) == SelectSeq(l, IsEthernetCard)

\* Mutation of HasInterface: the last declared interface is not paired.
HasInterfaceSkipsLast(i, n) == i + 1 < Len(n)

\* if index < len(n)
HasInterface(i, n) == i < Len(n)

\* Mutation of SetResourceAllocation: the share count is written whatever
\* the share level is.
SetResourceAllocationAnyLevel(card, ni) ==
    [card EXCEPT !.ResourceAllocation.Limit = <<ni.bandwidth_limit>>,
                 !.ResourceAllocation.Reservation = <<ni.bandwidth_reservation>>,
                 !.ResourceAllocation.Share.Level = ni.bandwidth_share_level,
                 !.ResourceAllocation.Share.Shares = ni.bandwidth_share_count]

\* The bandwidth settings written to the card.
SetResourceAllocation(card, ni) ==
    LET a == [card EXCEPT !.ResourceAllocation.Limit = <<ni.bandwidth_limit>>,
                          !.ResourceAllocation.Reservation = <<ni.bandwidth_reservation>>,
                          !.ResourceAllocation.Share.Level = ni.bandwidth_share_level]
    IN  IF a.ResourceAllocation.Share.Level = "custom"
        THEN [a EXCEPT !.ResourceAllocation.Share.Shares = ni.bandwidth_share_count]
        ELSE a

\* Mutation of SetStaticMac: without a static MAC the address fields are kept.
SetStaticMacKeepsAddress(card, ni) ==
    IF ni.use_static_mac
    THEN [card EXCEPT !.AddressType = "manual", !.MacAddress = ni.mac_address]
    ELSE card

\* If required then configure a static mac.
SetStaticMac(card, ni) ==
    IF ni.use_static_mac
    THEN [card EXCEPT !.AddressType = "manual", !.MacAddress = ni.mac_address]
    ELSE [card EXCEPT !.AddressType = "", !.MacAddress = ""]

\* The card as the loop body leaves it.
ConfigureEthernetCard(card, backing, ni) ==
    SetStaticMac(SetResourceAllocation([card EXCEPT !.Backing = backing], ni), ni)

\* &types.VirtualDeviceConfigSpec{Operation: edit, Device: device}
DeviceConfigSpec(device) == [Operation |-> "edit", Device |-> device]

BeginInstantClone ==
    /\ Idle
    /\ \E cfg \in InstantCloneConfigs : Enter("instant", cfg, <<"group-v1">>, "i_start")

InstantDatastore ==
    /\ pc = "i_start"
    /\ IF GetOk(d.datastore_id)
       THEN LET r == DatastoreFromID(d.datastore_id)
            IN  IF r.err # Nil
                THEN /\ Return(ExpandResult(spec, Nil, <<"error locating datastore for VM">> \o r.err))
                     /\ spec' = spec
                ELSE /\ spec' = SetDatastore(spec, r.ds)
                     /\ Goto("i_config")
       ELSE /\ spec' = spec
            /\ Goto("i_config")
    /\ UNCHANGED <<d, fo, op, vm, vprops, diff, devices, index, configSpecs, net, pool, hs>>

InstantConfig ==
    /\ pc = "i_config"
    /\ \E c \in RangeOrders(d.extra_config) :
          spec' = [spec EXCEPT !.Name = d.name, !.Location.Folder = fo, !.Config = c]
    /\ configSpecs' = <<>>
    /\ Goto("i_fromuuid")
    /\ UNCHANGED <<d, fo, op, vm, vprops, diff, devices, index, net, pool, hs>>

InstantFromUUID ==
    /\ pc = "i_fromuuid"
    /\ LET r == VMFromUUID(d.source_uuid)
       IN  IF r.err # Nil
           THEN /\ Return(ExpandResult(spec, Nil,
                      <<"cannot locate virtual machine or template with UUID",
                        d.source_uuid>> \o r.err))
                /\ vm' = vm
           ELSE /\ vm' = r.vm
                /\ Goto("i_props")
    /\ UNCHANGED <<d, fo, op, vprops, spec, diff, devices, index, configSpecs, net, pool, hs>>

InstantProperties ==
    /\ pc = "i_props"
    /\ \E r \in Properties(vm) :
          IF r.err # Nil
          THEN /\ Return(ExpandResult(spec, Nil,
                     <<"error fetching virtual machine or template properties">> \o r.err))
               /\ UNCHANGED <<vprops, devices, index>>
          \* vprops.Config.Hardware.Device dereferences vprops.Config
          ELSE IF r.props[1].Config = Nil
          THEN /\ vprops' = r.props
               /\ UNCHANGED <<devices, index>>
               /\ Panic
          ELSE /\ vprops' = r.props
               /\ devices' = SelectEthernetCards(r.props[1].Config.Hardware.Device)
               /\ index' = 0
               /\ Goto("i_loop")
    /\ UNCHANGED <<d, fo, op, vm, spec, diff, configSpecs, net, pool, hs>>

\* An iteration for a device that has a declared interface: network.FromID.
InstantNetworkFromID ==
    /\ pc = "i_loop"
    /\ index < Len(devices)
    /\ HasInterface(index, d.network_interface)
    /\ LET r == NetworkFromID(d.network_interface[index + 1].network_id)
       IN  IF r.err # Nil
           THEN /\ Return(ExpandResult(spec, Nil, r.err))
                /\ net' = net
           ELSE /\ net' = r.net
                /\ Goto("i_timeout")
    /\ UNCHANGED <<d, fo, op, vm, vprops, spec, diff, devices, index, configSpecs, pool, hs>>

\* bctx, bcancel := context.WithTimeout(...); defer bcancel()
InstantWithTimeout ==
    /\ pc = "i_timeout"
    /\ bctx' = Append(bctx, index)
    /\ pc' = "i_backing"
    /\ steps' = Append(steps, Step)
    /\ UNCHANGED <<d, fo, op, vm, vprops, spec, diff, devices, index, configSpecs, net, pool, hs, ret, prev, other>>

\* backing, err := net.EthernetCardBackingInfo(bctx), then the rest of the body.
InstantBackingInfo ==
    /\ pc = "i_backing"
    /\ \E r \in EthernetCardBackingInfo(net) :
          IF r.err # Nil
          THEN /\ Return(ExpandResult(spec, Nil, r.err))
               /\ UNCHANGED <<devices, configSpecs, spec, index>>
          ELSE /\ devices' = [devices EXCEPT ![index + 1] =
                      ConfigureEthernetCard(@, r.backing, d.network_interface[index + 1])]
               /\ configSpecs' = Append(configSpecs, DeviceConfigSpec(devices'[index + 1]))
               /\ spec' = [spec EXCEPT !.Location.DeviceChange = <<configSpecs'>>]
               /\ index' = index + 1
               /\ Goto("i_loop")
    /\ UNCHANGED <<d, fo, op, vm, vprops, diff, net, pool, hs>>

\* Mutation of InstantSkipDevice: a device beyond the declared interfaces
\* still gets a device change, for the device as it is.
InstantSkipDeviceAppends ==
    /\ pc = "i_loop"
    /\ index < Len(devices)
    /\ ~HasInterface(index, d.network_interface)
    /\ configSpecs' = Append(configSpecs, DeviceConfigSpec(devices[index + 1]))
    /\ spec' = [spec EXCEPT !.Location.DeviceChange = <<configSpecs'>>]
    /\ index' = index + 1
    /\ Goto("i_loop")
    /\ UNCHANGED <<d, fo, op, vm, vprops, diff, devices, net, pool, hs>>

\* An iteration for a device beyond the declared interfaces.
InstantSkipDevice ==
    /\ pc = "i_loop"
    /\ index < Len(devices)
    /\ ~HasInterface(index, d.network_interface)
    /\ spec' = [spec EXCEPT !.Location.DeviceChange = <<configSpecs>>]
    /\ index' = index + 1
    /\ Goto("i_loop")
    /\ UNCHANGED <<d, fo, op, vm, vprops, diff, devices, configSpecs, net, pool, hs>>

\* Mutation of InstantPool: the declared host is resolved and has to be a
\* member of the pool, as in the clone expansion.
InstantPoolValidatesHost ==
    /\ pc = "i_loop"
    /\ index >= Len(devices)
    /\ LET r == ResourcePoolFromID(d.resource_pool_id)
           h == HostSystemFromID(d.host_system_id)
       IN  IF r.err # Nil
           THEN /\ Return(ExpandResult(spec, Nil,
                      <<"could not find resource pool ID", d.resource_pool_id>> \o r.err))
                /\ UNCHANGED <<pool, spec>>
           ELSE IF GetOk(d.host_system_id) /\ ValidateHost(r.pool, h.hs) # Nil
           THEN /\ Return(ExpandResult(spec, Nil, ValidateHost(r.pool, h.hs)))
                /\ UNCHANGED <<pool, spec>>
           ELSE /\ pool' = r.pool
                /\ spec' = [spec EXCEPT !.Location.Pool = r.pool]
                /\ Goto("i_disks")
    /\ UNCHANGED <<d, fo, op, vm, vprops, diff, devices, index, configSpecs, net, hs>>

InstantPool ==
    /\ pc = "i_loop"
    /\ index >= Len(devices)
    /\ LET r == ResourcePoolFromID(d.resource_pool_id)
       IN  IF r.err # Nil
           THEN /\ Return(ExpandResult(spec, Nil,
                      <<"could not find resource pool ID", d.resource_pool_id>> \o r.err))
                /\ UNCHANGED <<pool, spec>>
           ELSE /\ pool' = r.pool
                /\ spec' = [spec EXCEPT !.Location.Pool = r.pool]
                /\ Goto("i_disks")
    /\ UNCHANGED <<d, fo, op, vm, vprops, diff, devices, index, configSpecs, net, hs>>

InstantRelocate ==
    /\ pc = "i_disks"
    /\ \E r \in DiskCloneRelocateOperation(d, vprops[1].Config.Hardware.Device) :
          IF r.err # Nil
          THEN /\ Return(ExpandResult(spec, Nil, r.err))
               /\ spec' = spec
          ELSE /\ spec' = [spec EXCEPT !.Location.Disk = r.relocators]
               /\ Return(ExpandResult(spec', vm, Nil))
    /\ UNCHANGED <<d, fo, op, vm, vprops, diff, devices, index, configSpecs, net, pool, hs>>

ExpandVirtualMachineInstantCloneSpec ==
    \/ BeginInstantClone
    \/ InstantDatastore
    \/ InstantConfig
    \/ InstantFromUUID
    \/ InstantProperties
    \/ InstantNetworkFromID
    \/ InstantWithTimeout
    \/ InstantBackingInfo
    \/ InstantSkipDevice
    \/ InstantPool
    \/ InstantRelocate

-----------------------------------------------------------------------------
(* dataSourceVSphereVirtualMachineRead *)

\* The data source's configurations: a name or path, and optionally the
\* datacenter to search.  The resource ID and the attributes are unset.
ReadConfigs ==
    { [ ZeroConfig EXCEPT !.name = n, !.datacenter_id = dcID ] :
        n \in {"template-1", "template-x"},
        dcID \in {"", "datacenter-1", "datacenter-x"} }

\* What dataSourceVSphereVirtualMachineRead returns.
ReadResult(e) == [err |-> e]

\* virtualdevice.ReadDiskAttrsForDataSource, ReadNetworkInterfaceTypes and
\* ReadNetworkInterfaces, and flattenVirtualMachineResourceAllocation for cpu
\* and memory: opaque to the read, each may fail; the first failure is the
\* one reported.
ReadAttributeErrors ==
    { Nil,
      <<"error reading disk sizes">>,
      <<"error reading network interface types">>,
      <<"error reading network interfaces">>,
      <<"error setting cpu share allocation and limit">>,
      <<"error setting memory share allocation and limit">> }

\* d.SetId
SetId(cfg, id) == [cfg EXCEPT !.id = id]

BeginRead ==
    /\ Idle
    /\ \E cfg \in ReadConfigs : Enter("read", cfg, Nil, "r_start")

\* The datacenter, when one is declared, and the machine found by its path.
ReadFromPath ==
    /\ pc = "r_start"
    /\ LET dcr == IF GetOk(d.datacenter_id) THEN DatacenterFromID(d.datacenter_id)
                  ELSE [dc |-> Nil, err |-> Nil]
           r   == VMFromPath(d.name, dcr.dc)
       IN  IF dcr.err # Nil
           THEN /\ Return(ReadResult(<<"cannot locate datacenter">> \o dcr.err))
                /\ vm' = vm
           ELSE IF r.err # Nil
           THEN /\ Return(ReadResult(<<"error fetching virtual machine">> \o r.err))
                /\ vm' = vm
           ELSE /\ vm' = r.vm
                /\ Goto("r_props")
    /\ UNCHANGED <<d, fo, op, vprops, spec, diff, devices, index, configSpecs, net, pool, hs>>

ReadProperties ==
    /\ pc = "r_props"
    /\ \E r \in Properties(vm) :
          IF r.err # Nil
          THEN /\ Return(ReadResult(
                     <<"error fetching virtual machine properties">> \o r.err))
               /\ vprops' = vprops
          ELSE /\ vprops' = r.props
               /\ Goto("r_check")
    /\ UNCHANGED <<d, fo, op, vm, spec, diff, devices, index, configSpecs, net, pool, hs>>

\* The structure is checked before any of its fields is read; a complete
\* structure gives the resource its ID and its scalar attributes.
ReadCheckProperties ==
    /\ pc = "r_check"
    /\ IF vprops[1].Config = Nil
       THEN /\ Return(ReadResult(<<"no configuration returned for virtual machine", d.name>>))
            /\ d' = d
       ELSE IF vprops[1].Config.Uuid = ""
       THEN /\ Return(ReadResult(<<"virtual machine does not have a UUID", d.name>>))
            /\ d' = d
       ELSE /\ d' = [SetId(d, vprops[1].Config.Uuid) EXCEPT
                        !.guest_id = vprops[1].Config.GuestId]
            /\ Goto("r_attributes")
    /\ UNCHANGED <<fo, op, vm, vprops, spec, diff, devices, index, configSpecs, net, pool, hs>>

\* The disks, the network interfaces and the resource allocations are read
\* from the device list and set; any failure ends the read.
ReadAttributes ==
    /\ pc = "r_attributes"
    /\ \E e \in ReadAttributeErrors : Return(ReadResult(e))
    /\ UNCHANGED <<d, fo, op, vm, vprops, spec, diff, devices, index, configSpecs, net, pool, hs>>

dataSourceVSphereVirtualMachineRead ==
    \/ BeginRead
    \/ ReadFromPath
    \/ ReadProperties
    \/ ReadCheckProperties
    \/ ReadAttributes

Next ==
    \/ ValidateVirtualMachineClone
    \/ ExpandVirtualMachineCloneSpec
    \/ ExpandVirtualMachineInstantCloneSpec
    \/ dataSourceVSphereVirtualMachineRead

Spec == Init /\ [][Next]_vars

-----------------------------------------------------------------------------
(* The instant clone expansion, run a second time on the same configuration *)

RepeatConfigs ==
    { [ ZeroConfig EXCEPT !.source_uuid = "uuid-1",
                          !.name = "clone-1",
                          !.resource_pool_id = "resgroup-1",
                          !.extra_config = ec,
                          !.network_interface = n ] :
        ec \in ExtraConfigs, n \in SeqsUpTo(NetworkInterfaces, 1) }

BeginFirstInstantClone ==
    /\ Idle
    /\ \E cfg \in RepeatConfigs : Enter("instant", cfg, <<"group-v1">>, "i_start")

\* The caller expands the same configuration again, with fresh locals.
BeginSecondInstantClone ==
    /\ op = "instant"
    /\ pc = "done"
    /\ prev = Nil
    /\ ret[1].err = Nil
    /\ d' = d
    /\ fo' = fo
    /\ op' = op
    /\ pc' = "i_start"
    /\ vm' = Nil
    /\ vprops' = Nil
    /\ spec' = ZeroSpec
    /\ diff' = Nil
    /\ devices' = <<>>
    /\ index' = 0
    /\ configSpecs' = <<>>
    /\ net' = Nil
    /\ pool' = Nil
    /\ hs' = Nil
    /\ bctx' = <<>>
    /\ ret' = Nil
    /\ prev' = ret
    /\ steps' = <<>>
    /\ other' = other

NextRepeat ==
    \/ BeginFirstInstantClone
    \/ BeginSecondInstantClone
    \/ InstantDatastore
    \/ InstantConfig
    \/ InstantFromUUID
    \/ InstantProperties
    \/ InstantNetworkFromID
    \/ InstantWithTimeout
    \/ InstantBackingInfo
    \/ InstantSkipDevice
    \/ InstantPool
    \/ InstantRelocate

SpecRepeat == Init /\ [][NextRepeat]_vars

-----------------------------------------------------------------------------
(* A validation at plan time followed by the clone expansion at apply time *)

\* The caller expands the configuration it has validated.  The expansion
\* starts with fresh locals and fetches the source again; the caller keeps
\* the properties the validation saw.
BeginCloneAfterValidate ==
    /\ op = "validate"
    /\ pc = "done"
    /\ prev = Nil
    /\ ret[1].err = Nil
    /\ d.template_uuid_known
    /\ d.resource_pool_id = "resgroup-1"
    /\ d' = d
    /\ fo' = fo
    /\ op' = "clone"
    /\ pc' = "c_start"
    /\ vm' = Nil
    /\ vprops' = Nil
    /\ spec' = ZeroSpec
    /\ diff' = diff
    /\ devices' = <<>>
    /\ index' = 0
    /\ configSpecs' = <<>>
    /\ net' = Nil
    /\ pool' = Nil
    /\ hs' = Nil
    /\ bctx' = <<>>
    /\ ret' = Nil
    /\ prev' = <<[err |-> Nil, props |-> vprops[1]]>>
    /\ steps' = <<>>
    /\ other' = other

NextPlanApply ==
    \/ ValidateVirtualMachineClone
    \/ BeginCloneAfterValidate
    \/ CloneDatastore
    \/ CloneFromUUID
    \/ CloneProperties
    \/ CloneLinked
    \/ ClonePool
    \/ CloneHost
    \/ CloneValidateHost
    \/ CloneRelocate

SpecPlanApply == Init /\ [][NextPlanApply]_vars

-----------------------------------------------------------------------------
(* Two instant clone expansions for independent resources, interleaved *)

\* The declared configurations of the two resources.
ConcurrentConfigs ==
    { [ ZeroConfig EXCEPT !.source_uuid = "uuid-1",
                          !.name = IF n.network_id = "network-1" THEN "clone-1" ELSE "clone-2",
                          !.resource_pool_id = "resgroup-1",
                          !.network_interface = <<n>> ] :
        n \in {ni \in NetworkInterfaces : ni.network_id \in {"network-1", "network-2"}} }

\* The sources whose expansions are interleaved: one with an adapter and a
\* disk, one with two adapters.  An expansion that fetched any other source
\* runs to its end without being suspended.
InterleavedSources ==
    { VirtualMachineProps("ubuntu64Guest", Nil, Nil, l) :
        l \in { <<EthernetCard(1, TRUE), VirtualDisk(2)>>,
                <<EthernetCard(1, FALSE), EthernetCard(2, TRUE)>> } }

Interleaved(l) == IF l.vprops = Nil THEN TRUE ELSE l.vprops[1] \in InterleavedSources

BeginConcurrent ==
    /\ Idle
    /\ \E cfg \in ConcurrentConfigs : Enter("instant", cfg, <<"group-v1">>, "i_start")

\* Mutation of Resumed: configSpecs is one variable for all invocations.
ResumedWithSharedConfigSpecs(saved) == [saved EXCEPT !.configSpecs = configSpecs]

\* The locals an invocation finds when it is resumed: each invocation has
\* its own, declared inside the function.
Resumed(saved) == saved

\* The scheduler suspends the running invocation and resumes the other one.
Switch ==
    /\ Interleaved(Locals) /\ Interleaved(other)
    /\ ~(other.pc = "idle" /\ pc = "idle")
    /\ other' = Locals
    /\ d' = Resumed(other).d
    /\ fo' = Resumed(other).fo
    /\ op' = Resumed(other).op
    /\ pc' = Resumed(other).pc
    /\ vm' = Resumed(other).vm
    /\ vprops' = Resumed(other).vprops
    /\ spec' = Resumed(other).spec
    /\ diff' = Resumed(other).diff
    /\ devices' = Resumed(other).devices
    /\ index' = Resumed(other).index
    /\ configSpecs' = Resumed(other).configSpecs
    /\ net' = Resumed(other).net
    /\ pool' = Resumed(other).pool
    /\ hs' = Resumed(other).hs
    /\ bctx' = Resumed(other).bctx
    /\ ret' = Resumed(other).ret
    /\ steps' = Resumed(other).steps
    /\ prev' = prev

NextConcurrent ==
    \/ BeginConcurrent
    \/ Switch
    \/ InstantDatastore
    \/ InstantConfig
    \/ InstantFromUUID
    \/ InstantProperties
    \/ InstantNetworkFromID
    \/ InstantWithTimeout
    \/ InstantBackingInfo
    \/ InstantSkipDevice
    \/ InstantPool
    \/ InstantRelocate

SpecConcurrent == Init /\ [][NextConcurrent]_vars

-----------------------------------------------------------------------------
(* Properties *)

\* The three conjuncts of linked clone eligibility, on a snapshot tree.
SnapshotEligible(info) ==
    /\ Len(info.RootSnapshotList) = 1
    /\ Len(info.RootSnapshotList[1].ChildSnapshotList) = 0
    /\ info.CurrentSnapshot = <<info.RootSnapshotList[1].Snapshot>>

\* The step that runs validateCloneSnapshots is about to execute on a source
\* that has a snapshot tree.
AtSnapshotCheck ==
    /\ pc \in {"v_snapshots", "c_linked"}
    /\ d.linked_clone
    /\ vprops[1].Snapshot # Nil

\* C1: for every snapshot tree the eligibility check succeeds exactly when
\* there is one root, the root has no children and the current snapshot is
\* the root; every other tree is rejected with an error.
C1_EligibilityIsThreeConjuncts ==
    [][ AtSnapshotCheck =>
          IF SnapshotEligible(vprops[1].Snapshot[1])
          THEN pc' \in {"v_disks", "c_pool"}
          ELSE pc' = "done" /\ ret'[1].err # Nil ]_vars

\* The messages of the customization step of the validation.
CustomizationErrors ==
    { "could not find resource pool ID", "cannot find OS family for guest ID",
      "customization spec is not valid for family" }

\* C2 as stated: with the source identifier not yet known the validation
\* returns success whatever the other declared values are.
C2_UnknownSourceAlwaysSucceeds ==
    (op = "validate" /\ ~d.template_uuid_known /\ pc = "done") => ret[1].err = Nil

\* C2, amended: with the source identifier not yet known every template
\* check is skipped (no source is resolved, no properties are fetched, the
\* diff is untouched); the validation succeeds whenever no customization
\* block or no resource pool is declared, and otherwise fails only in the
\* customization step.
C2_UnknownSourceSkipsTemplateChecks ==
    (op = "validate" /\ ~d.template_uuid_known) =>
        /\ pc \in {"v_start", "v_customize", "v_osfamily", "v_customization", "done"}
        /\ vm = Nil /\ vprops = Nil /\ diff = Nil
        /\ pc = "done" =>
              /\ (Len(d.customize) = 0 \/ ~GetOk(d.resource_pool_id)) => ret[1].err = Nil
              /\ ret[1].err # Nil => ret[1].err[1] \in CustomizationErrors

\* C2 witness: an unknown source with an invalid guest ID validated successfully.
C2_Witness ==
    /\ op = "validate" /\ ~d.template_uuid_known /\ pc = "done"
    /\ d.guest_id = "notAGuestId" /\ d.linked_clone
    /\ ret[1].err = Nil

\* The properties of a known source were fetched with their configuration
\* block, so the source has a guest ID.
FetchedKnownSource ==
    /\ op = "validate" /\ d.template_uuid_known
    /\ vprops # Nil
    /\ vprops[1].Config # Nil

\* The validation returned after fetching the properties of a known source.
ValidatedKnownSource == FetchedKnownSource /\ pc = "done"

\* C3 as stated: with a known, resolvable source whose properties are
\* fetched, the validation fails exactly when the guest IDs differ.
C3_FailsIffGuestIDDiffers ==
    ValidatedKnownSource =>
        (ret[1].err # Nil <=> vprops[1].Config.GuestId # d.guest_id)

\* C3, amended: the validation fails with the guest ID error exactly when
\* the declared guest ID differs from the source's, whatever the linked
\* clone flag and the customization block are; the error names the declared
\* and the source guest ID; with equal guest IDs a later step may still fail.
C3_GuestIDErrorIffGuestIDDiffers ==
    FetchedKnownSource =>
        LET eGuestID == vprops[1].Config.GuestId
            aGuestID == d.guest_id
            mismatch == <<"invalid guest ID for clone. Please set it to", aGuestID, eGuestID>>
        IN  IF eGuestID # aGuestID
            THEN pc = "v_guest" \/ (pc = "done" /\ ret[1].err = mismatch)
            ELSE pc = "done" /\ ret[1].err # Nil => ret[1].err[1] # mismatch[1]

\* C3 witness: a mismatch was reported for a linked clone with a customization block.
C3_Witness ==
    /\ ValidatedKnownSource
    /\ d.linked_clone /\ Len(d.customize) > 0
    /\ d.guest_id = "ubuntu64Guest" /\ vprops[1].Config.GuestId = "otherLinux64Guest"
    /\ ret[1].err = <<"invalid guest ID for clone. Please set it to",
                      "ubuntu64Guest", "otherLinux64Guest">>

\* The instant clone expansion returned a spec.
InstantCloneSucceeded == op = "instant" /\ pc = "done" /\ ret[1].err = Nil

\* The network adapters of the fetched source, as they were fetched: none
\* when the fetch returned no configuration block.
SourceAdapters ==
    IF vprops[1].Config = Nil THEN <<>>
    ELSE SelectEthernetCards(vprops[1].Config.Hardware.Device)

\* The device changes of a spec: none for a nil list.
DeviceChanges(s) ==
    IF s.Location.DeviceChange = Nil THEN <<>> ELSE s.Location.DeviceChange[1]

\* C4: a successful instant clone expansion on N network adapters and M
\* declared interfaces returns min(N, M) device changes; change i is an edit
\* of the i-th adapter, rewired to the network of the i-th declaration.
C4_DeviceChangesPairByIndex ==
    InstantCloneSucceeded =>
        LET dc == DeviceChanges(ret[1].spec)
            n == d.network_interface
        IN  /\ Len(dc) = Min(Len(SourceAdapters), Len(n))
            /\ \A i \in 1..Len(dc) :
                  /\ dc[i].Operation = "edit"
                  /\ IsEthernetCard(dc[i].Device)
                  /\ dc[i].Device.Key = SourceAdapters[i].Key
                  /\ dc[i].Device.Backing = <<[Network |-> n[i].network_id]>>
                  /\ dc[i].Device.ResourceAllocation.Limit = <<n[i].bandwidth_limit>>

\* C4 witness: the source has a disk and then one adapter, two interfaces are
\* declared, and the single device change edits that adapter.
C4_Witness ==
    /\ InstantCloneSucceeded
    /\ Len(vprops[1].Config.Hardware.Device) = 2
    /\ ~IsEthernetCard(vprops[1].Config.Hardware.Device[1])
    /\ Len(SourceAdapters) = 1 /\ Len(d.network_interface) = 2
    /\ Len(DeviceChanges(ret[1].spec)) = 1
    /\ DeviceChanges(ret[1].spec)[1].Device.Key = 2

\* C5: the address fields of a paired adapter depend on the static MAC flag
\* of its declaration alone: manual with the declared MAC address if it is
\* set, both fields empty if it is not.
C5_AddressFollowsStaticMacFlag ==
    op = "instant" =>
        \A i \in 1..Len(configSpecs) :
            LET ni == d.network_interface[i]
                card == configSpecs[i].Device
            IN  IF ni.use_static_mac
                THEN card.AddressType = "manual" /\ card.MacAddress = ni.mac_address
                ELSE card.AddressType = "" /\ card.MacAddress = ""

\* C5 witness: a returned adapter lost the manual MAC address of the source.
C5_Witness ==
    /\ InstantCloneSucceeded
    /\ \E i \in 1..Len(DeviceChanges(ret[1].spec)) :
          /\ SourceAdapters[i].AddressType = "manual"
          /\ ~d.network_interface[i].use_static_mac
          /\ d.network_interface[i].mac_address # ""
          /\ DeviceChanges(ret[1].spec)[i].Device.MacAddress = ""

\* The clone expansion returned a spec.
CloneSucceeded == op = "clone" /\ pc = "done" /\ ret[1].err = Nil

\* C6: a successful clone expansion returns, for a linked clone, the current
\* snapshot of the source and the disk move type createNewChildDiskBacking,
\* and otherwise neither.
C6_LinkedCloneSetsSnapshotAndDiskMove ==
    CloneSucceeded =>
        IF d.linked_clone
        THEN /\ ret[1].spec.Snapshot # Nil
             /\ ret[1].spec.Snapshot[1].Value # ""
             /\ ret[1].spec.Snapshot = vprops[1].Snapshot[1].CurrentSnapshot
             /\ ret[1].spec.Location.DiskMoveType = "createNewChildDiskBacking"
        ELSE /\ ret[1].spec.Snapshot = Nil
             /\ ret[1].spec.Location.DiskMoveType = ""

\* C6 witness: a linked clone spec was returned.
C6_Witness ==
    /\ CloneSucceeded
    /\ d.linked_clone
    /\ ret[1].spec.Snapshot = <<[Type |-> "VirtualMachineSnapshot", Value |-> "snapshot-1"]>>

\* One of the two expand functions returned.
ExpandReturned == op \in {"clone", "instant"} /\ pc = "done"

\* Every step of the expand function that ran has left its mark on the spec.
CompleteSpec(s) ==
    /\ s.Location.Pool # Nil
    /\ s.Location.Pool = ResourcePoolFromID(d.resource_pool_id).pool
    /\ s.Location.Disk # Nil
    /\ GetOk(d.datastore_id) => s.Location.Datastore # Nil
    /\ op = "clone" =>
          /\ d.linked_clone => s.Snapshot # Nil /\ s.Location.DiskMoveType # ""
          /\ GetOk(d.host_system_id) => s.Location.Host # Nil
    /\ op = "instant" =>
          /\ s.Name = d.name
          /\ s.Location.Folder = fo
          /\ Len(s.Config) = Cardinality(DOMAIN d.extra_config)
          /\ Len(DeviceChanges(s)) = Min(Len(SourceAdapters), Len(d.network_interface))

C8_ContextHeldOnlyDuringCall ==
    /\ Len(bctx) <= 1
    /\ pc # "i_backing" => bctx = <<>>

\* C9: two expansions of the same extra_config yield the same list of
\* entries, one per key of the mapping, with its value.
C9_ExtraConfigOrderIsDeterministic ==
    (op = "instant" /\ prev # Nil /\ pc \notin {"i_start", "i_config"}) =>
        /\ spec.Config = prev[1].spec.Config
        /\ Len(spec.Config) = Cardinality(DOMAIN d.extra_config)
        /\ \A k \in DOMAIN d.extra_config :
              \E i \in 1..Len(spec.Config) :
                  spec.Config[i] = [Key |-> k, Value |-> d.extra_config[k]]

\* C10: the clone expansion returns a spec only if the resource pool
\* resolves and a declared host resolves and is a member of the pool's
\* compute resource; a declared host that is no member makes it fail; a
\* returned spec has the pool set, and the host set exactly when declared.
C10_HostMustBelongToPool ==
    (op = "clone" /\ pc = "done") =>
        LET p == ResourcePoolFromID(d.resource_pool_id)
            h == HostSystemFromID(d.host_system_id)
            declared == GetOk(d.host_system_id)
        IN  /\ ret[1].err = Nil =>
                  /\ p.err = Nil
                  /\ declared => h.err = Nil /\ d.host_system_id \in PoolHosts(p.pool)
                  /\ ret[1].spec.Location.Pool = p.pool
                  /\ ret[1].spec.Location.Pool # Nil
                  /\ ret[1].spec.Location.Host # Nil <=> declared
                  /\ declared => ret[1].spec.Location.Host = h.hs
            /\ (declared /\ p.err = Nil /\ h.err = Nil
                  /\ d.host_system_id \notin PoolHosts(p.pool)) =>
                  /\ ret[1].err # Nil
                  /\ hs # Nil => ret[1].err[1] = "host is not a member of resource pool"

\* C10 witness: a declared host outside the pool's compute resource was refused.
C10_Witness ==
    /\ op = "clone" /\ pc = "done"
    /\ d.host_system_id = "host-2"
    /\ hs = <<"host-2">> /\ pool = <<"resgroup-1">>
    /\ ret[1].err = <<"host is not a member of resource pool", "host-2", "resgroup-1">>

\* The steps of each function in the order they are listed: validate 4.1
\* steps 2-8, traditional clone 4.2 steps 1-5, instant clone 4.3 steps 1-8.
ListedOrder ==
    [ validate |-> <<"v_start", "v_props", "v_guest", "v_snapshots", "v_disks", "v_vapp",
                     "v_customize", "v_osfamily", "v_customization">>,
      clone |-> <<"c_start", "c_fromuuid", "c_props", "c_linked", "c_pool", "c_host",
                  "c_validatehost", "c_disks">>,
      instant |-> <<"i_start", "i_config", "i_fromuuid", "i_props", "i_loop", "i_timeout",
                    "i_backing", "i_disks">>,
      read |-> <<"r_start", "r_props", "r_check", "r_attributes">>,
      idle |-> <<>> ]

\* The steps that belong to one iteration of the device loop.
LoopSteps == {"i_loop", "i_timeout", "i_backing"}

\* The place of a label in the listed order of the running function.
PlaceOf(at) == CHOOSE i \in 1..Len(ListedOrder[op]) : ListedOrder[op][i] = at

\* s comes before t: earlier in the listed order, or, for two steps of the
\* device loop, for an earlier adapter or earlier within the same iteration.
ComesBefore(s, t) ==
    IF s.at \in LoopSteps /\ t.at \in LoopSteps
    THEN s.index < t.index \/ (s.index = t.index /\ PlaceOf(s.at) < PlaceOf(t.at))
    ELSE PlaceOf(s.at) < PlaceOf(t.at)

\* The errors each step can produce, by the head of the message.
SnapshotErrors ==
    { "must have a snapshot to be used as a linked clone",
      "must have exactly one root snapshot (has: %d)",
      "root snapshot must not have children",
      "current snapshot must match root snapshot" }

ErrorsOfStep(at) ==
    CASE at \in {"v_start", "c_fromuuid", "i_fromuuid"} ->
            {"cannot locate virtual machine or template with UUID"}
      [] at \in {"v_props", "c_props", "i_props"} ->
            {"error fetching virtual machine or template properties"}
      [] at = "v_guest" -> {"invalid guest ID for clone. Please set it to"}
      [] at \in {"v_snapshots", "c_linked"} -> SnapshotErrors
      [] at = "v_disks" -> {"disk configuration does not match the source"}
      [] at \in {"v_customize", "c_pool"} -> {"could not find resource pool ID"}
      [] at = "v_osfamily" -> {"cannot find OS family for guest ID"}
      [] at = "v_customization" -> {"customization spec is not valid for family"}
      [] at \in {"c_start", "i_start"} -> {"error locating datastore for VM"}
      [] at = "c_host" -> {"error locating host system at ID"}
      [] at = "c_validatehost" -> {"host is not a member of resource pool"}
      [] at \in {"c_disks", "i_disks"} -> {"error computing disk relocators"}
      [] at = "i_loop" -> {"network not found", "could not find resource pool ID"}
      [] at = "i_backing" -> {"error getting backing info"}
      [] at = "r_start" -> {"cannot locate datacenter", "error fetching virtual machine"}
      [] at = "r_props" -> {"error fetching virtual machine properties"}
      [] at = "r_check" -> {"no configuration returned for virtual machine",
                            "virtual machine does not have a UUID"}
      [] at = "r_attributes" -> {e[1] : e \in ReadAttributeErrors \ {Nil}}
      [] OTHER -> {}

\* The function has ended: it returned or it panicked.
Ended == pc \in {"done", "panic"}

\* The executed steps are in the listed order, none of them twice for the
\* same adapter, and the step in progress comes after all of them.
StepsInListedOrder ==
    /\ \A i, j \in 1..Len(steps) : i < j => ComesBefore(steps[i], steps[j])
    /\ (~Ended /\ pc # "idle") => \A i \in 1..Len(steps) : ComesBefore(steps[i], Step)

\* A returned error is an error of the last step executed.
ErrorIsOfLastStep ==
    (pc = "done" /\ ret[1].err # Nil) =>
        /\ Len(steps) > 0
        /\ ret[1].err[1] \in ErrorsOfStep(steps[Len(steps)].at)

\* Of two failures that are both bound to happen the earlier one is returned:
\* an unresolvable datastore wins over an unresolvable source, and an
\* unresolvable source over an unresolvable resource pool or host.
EarlierFailureWins ==
    (pc = "done" /\ op \in {"clone", "instant"}) =>
        LET uuid == IF op = "clone" THEN d.template_uuid ELSE d.source_uuid
        IN  IF GetOk(d.datastore_id) /\ DatastoreFromID(d.datastore_id).err # Nil
            THEN ret[1].err # Nil /\ ret[1].err[1] = "error locating datastore for VM" /\ Len(steps) = 1
            ELSE VMFromUUID(uuid).err # Nil =>
                    /\ ret[1].err # Nil
                    /\ ret[1].err[1] = "cannot locate virtual machine or template with UUID"
                    /\ pool = Nil /\ hs = Nil /\ vprops = Nil

\* C11: validate and both expand functions are fail-fast without retry: the
\* steps run in the listed order, each at most once per invocation (the
\* network steps once per paired adapter), a returned error is the error of
\* the last step executed, which is the first that failed, and once the
\* function has ended no further step is taken.
C11_FailFastInListedOrder ==
    /\ [](StepsInListedOrder /\ ErrorIsOfLastStep /\ EarlierFailureWins)
    /\ [][~Ended]_vars

\* C11 witness: neither the datastore nor the source resolves; the datastore
\* step alone ran and its error was returned.
C11_Witness ==
    /\ op = "clone" /\ pc = "done"
    /\ d.datastore_id = "datastore-x" /\ d.template_uuid = "uuid-x"
    /\ steps = <<[at |-> "c_start", index |-> 0]>>
    /\ ret[1].err[1] = "error locating datastore for VM"

\* The validation ran its customization step with a customization block declared.
CustomizationStepRan ==
    /\ op = "validate" /\ Len(d.customize) > 0
    /\ \E i \in 1..Len(steps) : steps[i].at = "v_customize"

\* The OS family lookup or the customization spec validation is running or ran.
FamilyLookupReached ==
    \/ pc \in {"v_osfamily", "v_customization"}
    \/ \E i \in 1..Len(steps) : steps[i].at \in {"v_osfamily", "v_customization"}

\* C12 as stated: with a customization block declared, the OS family lookup
\* and the customization spec validation run only if the resource pool
\* resolves, and a resource pool that cannot be resolved makes the step be
\* skipped without failing the validation.
C12_UnresolvablePoolIsSkipped ==
    (op = "validate" /\ Len(d.customize) > 0) =>
        /\ FamilyLookupReached => ResourcePoolFromID(d.resource_pool_id).err = Nil
        /\ (CustomizationStepRan /\ pc = "done"
              /\ ResourcePoolFromID(d.resource_pool_id).err # Nil) => ret[1].err = Nil

\* C12, amended: the OS family lookup and the customization spec validation
\* run only if a resource pool id is set and resolves; with no resource pool
\* id the step is skipped and the validation succeeds without resolving
\* anything; a resource pool id that is set and does not resolve is fatal.
C12_UnsetPoolIsSkippedUnresolvedIsFatal ==
    (op = "validate" /\ Len(d.customize) > 0) =>
        /\ FamilyLookupReached =>
              /\ d.resource_pool_id # ""
              /\ ResourcePoolFromID(d.resource_pool_id).err = Nil
              /\ pool = ResourcePoolFromID(d.resource_pool_id).pool
        /\ (CustomizationStepRan /\ d.resource_pool_id = "") =>
              /\ pc = "done" /\ ret[1].err = Nil
              /\ steps[Len(steps)].at = "v_customize"
              /\ pool = Nil
        /\ (CustomizationStepRan /\ d.resource_pool_id # ""
              /\ ResourcePoolFromID(d.resource_pool_id).err # Nil) =>
              /\ pc = "done"
              /\ ret[1].err = <<"could not find resource pool ID", d.resource_pool_id>>
                                \o ResourcePoolFromID(d.resource_pool_id).err
              /\ ~FamilyLookupReached

\* C12 witness: a known source passed every template check and the
\* customization step was skipped because no resource pool id is set.
C12_Witness ==
    /\ CustomizationStepRan /\ pc = "done"
    /\ d.template_uuid_known /\ vprops # Nil
    /\ d.resource_pool_id = ""
    /\ ret[1].err = Nil

\* The disk compatibility check ran and reported no mismatch.
DiskCheckPassed ==
    \E i \in 1..Len(steps) :
        steps[i].at = "v_disks" /\ ~(i = Len(steps) /\ pc = "done")

\* Every check that precedes the vApp step has passed.
TemplateChecksPassed ==
    /\ d.template_uuid_known
    /\ VMFromUUID(d.template_uuid).err = Nil
    /\ vprops # Nil
    /\ vprops[1].Config # Nil
    /\ vprops[1].Config.GuestId = d.guest_id
    /\ d.linked_clone =>
          /\ vprops[1].Snapshot # Nil
          /\ SnapshotEligible(vprops[1].Snapshot[1])
    /\ DiskCheckPassed

\* C13: the validation writes the vApp transports into the diff exactly when
\* the source is known, was resolved and fetched, passed the guest ID check,
\* the snapshot check (for a linked clone) and the disk check, and exposes a
\* vApp configuration; the value written is the source's transport list; in
\* every other case, and in the expand functions, the diff is left alone.
C13_VAppTransportWrittenIffChecksPassed ==
    /\ diff # Nil =>
          /\ op = "validate"
          /\ TemplateChecksPassed
          /\ vprops[1].Config.VAppConfig # Nil
          /\ diff = <<vprops[1].Config.VAppConfig[1].OvfEnvironmentTransport>>
    /\ (op = "validate" /\ Ended /\ TemplateChecksPassed
          /\ vprops[1].Config.VAppConfig # Nil) => diff # Nil

\* C13 witness: the transports were written for a linked clone although the
\* validation then failed in the customization step.
C13_Witness ==
    /\ op = "validate" /\ pc = "done"
    /\ d.linked_clone
    /\ diff = << <<"iso", "com.vmware.guestInfo">> >>
    /\ ret[1].err # Nil

\* One of the expand functions has executed its datastore step.
DatastoreStepRan ==
    /\ op \in {"clone", "instant"}
    /\ \E i \in 1..Len(steps) : steps[i].at \in {"c_start", "i_start"}

\* C14: in both expand functions the datastore is optional.  With no
\* datastore id the step cannot fail and the datastore field is never set;
\* with an id that resolves the field holds the resolved reference from then
\* on and in the returned spec; an id that does not resolve is fatal at once.
C14_DatastoreIsOptional ==
    DatastoreStepRan =>
        LET r == DatastoreFromID(d.datastore_id)
        IN  IF d.datastore_id = ""
            THEN /\ spec.Location.Datastore = Nil
                 /\ ~(pc = "done" /\ Len(steps) = 1)
                 /\ pc = "done" =>
                       /\ ret[1].spec.Location.Datastore = Nil
                       /\ ret[1].err # Nil => ret[1].err[1] # "error locating datastore for VM"
            ELSE IF r.err = Nil
            THEN /\ spec.Location.Datastore = r.ds
                 /\ spec.Location.Datastore # Nil
                 /\ ~(pc = "done" /\ Len(steps) = 1)
                 /\ pc = "done" => ret[1].spec.Location.Datastore = r.ds
            ELSE /\ pc = "done" /\ Len(steps) = 1
                 /\ ret[1].err = <<"error locating datastore for VM">> \o r.err
                 /\ ret[1].vm = Nil
                 /\ ret[1].spec.Location.Datastore = Nil

\* C14 witness: an instant clone spec was returned with no datastore
\* declared, and its datastore field is unset.
C14_Witness ==
    /\ op = "instant" /\ pc = "done"
    /\ d.datastore_id = ""
    /\ ret[1].err = Nil
    /\ ret[1].spec.Location.Datastore = Nil
    /\ ret[1].spec.Location.Pool # Nil

\* The clone expansion of a linked clone has fetched the source again after a
\* validation that succeeded.
RefetchedAfterValidate ==
    op = "clone" /\ prev # Nil /\ d.linked_clone /\ vprops # Nil

\* The snapshot tree the expansion fetched is eligible for a linked clone.
FetchedTreeEligible ==
    /\ vprops[1].Snapshot # Nil
    /\ SnapshotEligible(vprops[1].Snapshot[1])

\* C15: whatever snapshot tree the validation saw, a linked clone expansion
\* returns a spec only if the tree it fetched itself is eligible, and the
\* snapshot reference it returns is the current snapshot of that tree, which
\* is its root; if the fetched tree is not eligible the expansion ends at the
\* snapshot check without a spec and without any linked clone field set.
C15_ExpandJudgesItsOwnFetch ==
    RefetchedAfterValidate =>
        /\ (pc = "done" /\ ret[1].err = Nil) =>
              /\ FetchedTreeEligible
              /\ ret[1].spec.Snapshot = vprops[1].Snapshot[1].CurrentSnapshot
              /\ ret[1].spec.Snapshot = <<vprops[1].Snapshot[1].RootSnapshotList[1].Snapshot>>
        /\ ~FetchedTreeEligible =>
              /\ pc = "c_linked" \/ Ended
              /\ spec.Snapshot = Nil /\ spec.Location.DiskMoveType = ""
              /\ pc = "done" =>
                    /\ ret[1].err # Nil /\ ret[1].err[1] \in SnapshotErrors
                    /\ ret[1].vm = Nil
                    /\ ret[1].spec.Snapshot = Nil
                    /\ steps[Len(steps)].at = "c_linked"

\* C15 witness: the validation saw a single snapshot, the expansion fetched
\* a tree with two roots and failed on it.
C15_Witness ==
    /\ RefetchedAfterValidate /\ pc = "done"
    /\ prev[1].props.Snapshot = SingleSnapshot
    /\ vprops[1].Snapshot # Nil
    /\ Len(vprops[1].Snapshot[1].RootSnapshotList) = 2
    /\ ret[1].err = <<"must have exactly one root snapshot (has: %d)", "uuid-1", "2">>

\* The number of adapters that have a declared interface.
Paired == Min(Len(SourceAdapters), Len(d.network_interface))

\* C16: in the instant clone expansion an adapter at or beyond the number of
\* declared interfaces stays as it was fetched and gets no device change; a
\* declared interface at or beyond the number of adapters causes no network
\* resolution and no error; a device that is no adapter gets no device change.
C16_UnpairedAdaptersAndInterfacesUntouched ==
    (op = "instant" /\ vprops # Nil) =>
        /\ Len(configSpecs) <= Paired
        /\ \A i \in 1..Len(configSpecs) :
              /\ IsEthernetCard(configSpecs[i].Device)
              /\ configSpecs[i].Device.Key = SourceAdapters[i].Key
        /\ \A i \in 1..Len(devices) :
              i > Len(d.network_interface) => devices[i] = SourceAdapters[i]
        /\ \A i \in 1..Len(steps) :
              \/ steps[i].at \notin {"i_timeout", "i_backing"}
              \/ steps[i].index < Paired
        /\ (pc = "done" /\ ret[1].err # Nil /\ ret[1].err[1] = "network not found") =>
              \E i \in 1..Paired : ret[1].err[2] = d.network_interface[i].network_id
        /\ (pc = "done" /\ ret[1].err = Nil) =>
              /\ Len(DeviceChanges(ret[1].spec)) = Paired
              /\ \A i \in 1..Paired :
                    DeviceChanges(ret[1].spec)[i].Device.Key = SourceAdapters[i].Key

\* C16 witness: three adapters and one declared interface gave one device
\* change, for the first adapter.
C16_Witness ==
    /\ InstantCloneSucceeded
    /\ Len(SourceAdapters) = 3 /\ Len(d.network_interface) = 1
    /\ Len(DeviceChanges(ret[1].spec)) = 1
    /\ DeviceChanges(ret[1].spec)[1].Device.Key = SourceAdapters[1].Key
    /\ devices[2] = SourceAdapters[2] /\ devices[3] = SourceAdapters[3]

\* C16, second case: one adapter and two declared interfaces, the second of
\* which names a network that does not resolve; the expansion succeeded.
C16_IgnoredInterfaceReached ==
    /\ InstantCloneSucceeded
    /\ Len(SourceAdapters) = 1 /\ Len(d.network_interface) = 2
    /\ NetworkFromID(d.network_interface[2].network_id).err # Nil

DeviceChangesAlone(l) ==
    LET adapters == IF l.vprops[1].Config = Nil THEN <<>>
                    ELSE SelectEthernetCards(l.vprops[1].Config.Hardware.Device)
        n == l.d.network_interface
    IN  [ i \in 1..Min(Len(adapters), Len(n)) |->
            DeviceConfigSpec(
                ConfigureEthernetCard(adapters[i], <<[Network |-> n[i].network_id]>>, n[i])) ]

\* The invocation with the locals l is where it would be had it run alone:
\* the spec it builds and the result it returns are determined by its own
\* configuration, its own folder and the source it fetched itself.
AsWhenRunAlone(l) ==
    l.op = "instant" =>
        /\ l.spec.Name \in {"", l.d.name}
        /\ l.spec.Location.Folder \in {Nil, l.fo}
        /\ l.spec.Location.Pool \in {Nil, ResourcePoolFromID(l.d.resource_pool_id).pool}
        /\ l.vprops # Nil =>
              /\ Len(l.configSpecs) <= Len(DeviceChangesAlone(l))
              /\ \A i \in 1..Len(l.configSpecs) : l.configSpecs[i] = DeviceChangesAlone(l)[i]
              /\ DeviceChanges(l.spec) = l.configSpecs
        /\ (l.pc = "done" /\ l.ret[1].err = Nil) =>
              /\ l.ret[1].vm = VMFromUUID(l.d.source_uuid).vm
              /\ l.ret[1].spec = l.spec
              /\ l.spec.Name = l.d.name
              /\ l.spec.Location.Folder = l.fo
              /\ l.spec.Location.Pool = ResourcePoolFromID(l.d.resource_pool_id).pool
              /\ DeviceChanges(l.spec) = DeviceChangesAlone(l)
              /\ \E r \in DiskCloneRelocateOperation(l.d, l.vprops[1].Config.Hardware.Device) :
                    r.err = Nil /\ l.spec.Location.Disk = r.relocators

HostAndSnapshotErrors ==
    SnapshotErrors \cup
        {"error locating host system at ID", "host is not a member of resource pool"}

\* The instant clone expansion has executed its resource pool step, which
\* follows the iterations of the device loop.
InstantPoolStepRan ==
    /\ op = "instant" /\ vprops # Nil
    /\ \E i \in 1..Len(steps) : steps[i].at = "i_loop" /\ steps[i].index = Len(devices)

FirstViolatedClause(props) ==
    LET uuid == props.Config.Uuid
        snap == props.Snapshot
    IN  IF snap = Nil
        THEN <<"must have a snapshot to be used as a linked clone", uuid>>
        ELSE IF Len(snap[1].RootSnapshotList) # 1
        THEN <<"must have exactly one root snapshot (has: %d)", uuid,
               ToString(Len(snap[1].RootSnapshotList))>>
        ELSE IF Len(snap[1].RootSnapshotList[1].ChildSnapshotList) # 0
        THEN <<"root snapshot must not have children", uuid>>
        ELSE IF snap[1].CurrentSnapshot # <<snap[1].RootSnapshotList[1].Snapshot>>
        THEN <<"current snapshot must match root snapshot", uuid>>
        ELSE Nil

\* The snapshot check of a linked clone is about to run, on any source that
\* was fetched with its configuration block.
AtLinkedCloneCheck ==
    /\ pc \in {"v_snapshots", "c_linked"} /\ d.linked_clone
    /\ vprops[1].Config # Nil

\* C20: when a linked clone is requested and the snapshot state of the
\* source is not eligible, the function returns the error of the first
\* violated clause, with the root count where that is the clause; a source
\* without a snapshot tree is an error like the others, not a crash.
C20_FirstViolatedClauseIsReported ==
    [][ (AtLinkedCloneCheck /\ FirstViolatedClause(vprops[1]) # Nil) =>
            /\ pc' = "done"
            /\ ret'[1].err = FirstViolatedClause(vprops[1]) ]_vars

\* A fetched structure is incomplete: the configuration block or the UUID is
\* missing.
Incomplete(props) ==
    IF props.Config = Nil THEN TRUE ELSE props.Config.Uuid = ""

\* The errors that report unavailable properties: the fetch failed, or the
\* structure it returned is incomplete.
PropertiesUnavailableErrors ==
    { "error fetching virtual machine or template properties",
      "error fetching virtual machine properties",
      "no configuration returned for virtual machine",
      "virtual machine does not have a UUID" }

\* The steps that fetch the properties, and where each function stands right
\* after a fetch that returned a structure.
FetchSteps == {"v_props", "c_props", "i_props", "r_props"}
AfterFetch == {"v_guest", "c_linked", "i_loop", "r_check"}

\* The function returned the error of unavailable properties.
EndedPropertiesUnavailable ==
    /\ pc = "done"
    /\ ret[1].err # Nil
    /\ ret[1].err[1] \in PropertiesUnavailableErrors

\* C21: whenever the property fetch of a resolved source fails or returns an
\* incomplete structure, the function ends with the error of unavailable
\* properties before it uses a field of the structure: it does not crash, it
\* takes no step beyond the check of the structure, and the data source read
\* sets no resource ID.  Holds for the validation, both expansions and the
\* data source read.
C21_IncompleteFetchIsFatal ==
    /\ (vprops # Nil /\ Incomplete(vprops[1])) =>
          /\ pc \in AfterFetch \cup {"done"}
          /\ pc = "done" => EndedPropertiesUnavailable
          /\ d.id = ""
    /\ (pc = "done" /\ vm # Nil /\ vprops = Nil /\ steps[Len(steps)].at \in FetchSteps) =>
          /\ EndedPropertiesUnavailable
          /\ d.id = ""

\* The data source read alone does what C21 says: an incomplete structure
\* ends the read at its check with the error that names what is missing, and
\* the resource has no ID.
ReadRejectsIncompleteFetch ==
    (op = "read" /\ vprops # Nil /\ Incomplete(vprops[1])) =>
        /\ pc \in {"r_check", "done"}
        /\ pc = "done" =>
              /\ steps[Len(steps)].at = "r_check"
              /\ ret[1].err # Nil
              /\ ret[1].err[1] = (IF vprops[1].Config = Nil
                                   THEN "no configuration returned for virtual machine"
                                   ELSE "virtual machine does not have a UUID")
        /\ d.id = ""

\* A complete structure gives the resource the UUID of the machine as its ID.
ReadSetsIdOfCompleteFetch ==
    (op = "read" /\ d.id # "") =>
        /\ vprops # Nil /\ ~Incomplete(vprops[1])
        /\ d.id = vprops[1].Config.Uuid

\* The validation succeeded on a source fetched without a UUID.
ValidatedWithoutUUID ==
    /\ op = "validate" /\ pc = "done" /\ ret[1].err = Nil
    /\ vprops # Nil /\ vprops[1].Config # Nil /\ vprops[1].Config.Uuid = ""

\* A function crashed on a source fetched without a configuration block.
CrashedWithoutConfig(o) ==
    op = o /\ pc = "panic" /\ vprops # Nil /\ vprops[1].Config = Nil

\* A configuration and a fetched structure with the guest IDs blanked out.
WithoutGuestID(cfg) == [cfg EXCEPT !.guest_id = ""]
SourceWithoutGuestID(props) == [props EXCEPT !.Config.GuestId = ""]

\* Every step of the clone expansion other than the disk relocation is bound
\* to succeed on this configuration and this fetched source.
OtherCloneStepsSucceed(cfg, props) ==
    /\ GetOk(cfg.datastore_id) => DatastoreFromID(cfg.datastore_id).err = Nil
    /\ VMFromUUID(cfg.template_uuid).err = Nil
    /\ cfg.linked_clone => (props.Snapshot # Nil /\ SnapshotEligible(props.Snapshot[1]))
    /\ ResourcePoolFromID(cfg.resource_pool_id).err = Nil
    /\ GetOk(cfg.host_system_id) =>
          /\ HostSystemFromID(cfg.host_system_id).err = Nil
          /\ cfg.host_system_id \in PoolHosts(ResourcePoolFromID(cfg.resource_pool_id).pool)

\* The specs the clone expansion returns on success for a configuration and
\* a fetched source.
CloneSpecsOf(cfg, props) ==
    { [ Location |->
          [ Datastore |-> IF GetOk(cfg.datastore_id)
                          THEN DatastoreFromID(cfg.datastore_id).ds ELSE Nil,
            Pool |-> ResourcePoolFromID(cfg.resource_pool_id).pool,
            Host |-> IF GetOk(cfg.host_system_id)
                     THEN HostSystemFromID(cfg.host_system_id).hs ELSE Nil,
            Folder |-> Nil,
            Disk |-> r.relocators,
            DiskMoveType |-> IF cfg.linked_clone THEN "createNewChildDiskBacking" ELSE "",
            DeviceChange |-> Nil ],
        Snapshot |-> IF cfg.linked_clone THEN props.Snapshot[1].CurrentSnapshot ELSE Nil,
        Name |-> "", Config |-> <<>> ] :
      r \in { x \in DiskCloneRelocateOperation(cfg, props.Config.Hardware.Device) :
                x.err = Nil } }

\* The disk relocation failed.
DiskStepFailed ==
    pc = "done" /\ ret[1].err # Nil /\ ret[1].err[1] = "error computing disk relocators"

\* The clone expansion has ended on a source fetched with its configuration.
CloneEndedOnFetchedSource ==
    /\ op = "clone" /\ Ended
    /\ vprops # Nil
    /\ vprops[1].Config # Nil

\* C22: the clone expansion checks the snapshots again and nothing else of
\* the validation: it never returns the guest ID error, and its outcome and
\* the spec it returns are those determined by the configuration and the
\* fetched source with both guest IDs blanked out, so that it succeeds on a
\* source whose guest ID differs from the declared one whenever every other
\* step succeeds.
C22_CloneExpansionIgnoresGuestIDs ==
    /\ (op = "clone" /\ pc = "done" /\ ret[1].err # Nil) =>
          ret[1].err[1] # "invalid guest ID for clone. Please set it to"
    /\ CloneEndedOnFetchedSource =>
          LET cfg == WithoutGuestID(d)
              props == SourceWithoutGuestID(vprops[1])
          IN  IF OtherCloneStepsSucceed(cfg, props) /\ ~DiskStepFailed
              THEN /\ pc = "done"
                   /\ ret[1].err = Nil
                   /\ ret[1].spec \in CloneSpecsOf(cfg, props)
              ELSE pc = "done" => ret[1].err # Nil

\* C22 witness: a linked clone expansion succeeded on a source whose guest ID
\* differs from the declared one.
C22_Witness ==
    /\ op = "clone" /\ pc = "done" /\ ret[1].err = Nil
    /\ d.linked_clone
    /\ vprops[1].Config # Nil
    /\ d.guest_id = "ubuntu64Guest" /\ vprops[1].Config.GuestId = "otherLinux64Guest"

\* At apply time the source has another guest ID than the one the
\* validation at plan time accepted, and the expansion succeeded.
GuestIDChangedAfterValidate ==
    /\ op = "clone" /\ pc = "done" /\ ret[1].err = Nil
    /\ prev # Nil
    /\ prev[1].props.Config.GuestId = d.guest_id
    /\ vprops[1].Config.GuestId # d.guest_id

\* The source identifier an expand function reads: template_uuid for the
\* clone, source_uuid for the instant clone.
DeclaredSource == IF op = "clone" THEN d.template_uuid ELSE d.source_uuid

\* C23: an expand function returns a source handle exactly when it returns
\* no error: beside an error the handle is nil, and on success it is the
\* handle this invocation resolved from the declared source identifier
\* (template_uuid for the clone, source_uuid for the instant clone).
C23_HandleIffNoError ==
    ExpandReturned =>
        /\ ret[1].vm # Nil <=> ret[1].err = Nil
        /\ ret[1].err = Nil =>
              /\ VMFromUUID(DeclaredSource).err = Nil
              /\ ret[1].vm = VMFromUUID(DeclaredSource).vm
              /\ ret[1].vm = vm
        /\ ret[1].err # Nil =>
              \/ vm = Nil
              \/ vm = VMFromUUID(DeclaredSource).vm

\* C23 witness: an instant clone of the second machine returned its handle,
\* which is not the handle of the first.
C23_Witness ==
    /\ op = "instant" /\ pc = "done"
    /\ d.source_uuid = "uuid-2"
    /\ ret[1].err = Nil
    /\ ret[1].vm = <<"vm-2">>

\* C23, error case: the source was resolved and a later step failed; the
\* handle is held by the function and not returned.
C23_ErrorAfterResolutionReached ==
    /\ op = "clone" /\ pc = "done"
    /\ vm = <<"vm-2">>
    /\ ret[1].err # Nil /\ ret[1].vm = Nil

====
